---- MODULE Spec2Model ----
(***************************************************************************)
(* Model of the YC company scraper (challenge-2): the CSV parser, the      *)
(* crawler's request handler with its launch sub-page fetches, the field   *)
(* extractors and the JSON output written by processCompanyList.           *)
(*                                                                         *)
(* Two specifications:                                                     *)
(*   Spec         the pipeline run by processCompanyList                   *)
(*   SpecExtract  one call of one field extractor on a bounded input       *)
(***************************************************************************)
EXTENDS Integers, Sequences, FiniteSets, TLC

VARIABLES
  \* one extractor call: the extractor, what its selectors found, whether it
  \* has run, and its outcome
  fn, arg, called, ret,
  \* processCompanyList: where the run is, the rows of the input file, the
  \* parser's position, the companies parsed, the errors logged
  pc, csvRows, rowIdx, companies, errorLog,
  \* scrapeCompanyPages: the crawler's requests, the output collection
  req, scrapedData,
  \* whether the output directory has been created
  outDir,
  \* the output file
  outFile,
  \* the Challenge widget: its props, its state, the addToCart calls waiting
  \* for isDomainAvailable, and the title of the last notification shown
  maxDomains, numDomainsRequired, cart, inputValue, isValidateLoading, pending,
  toast

extVars == <<fn, arg, called, ret>>
pipeVars == <<pc, csvRows, rowIdx, companies, errorLog, req, scrapedData, outDir, outFile>>
cartVars == <<maxDomains, numDomainsRequired, cart, inputValue, isValidateLoading,
              pending, toast>>
vars == <<fn, arg, called, ret, pc, csvRows, rowIdx, companies, errorLog, req,
          scrapedData, outDir, outFile, maxDomains, numDomainsRequired, cart,
          inputValue, isValidateLoading, pending, toast>>

\* no widget is mounted
CartIdle ==
  /\ maxDomains = 0
  /\ numDomainsRequired = 0
  /\ cart = <<>>
  /\ inputValue = <<>>
  /\ isValidateLoading = FALSE
  /\ pending = <<>>
  /\ toast = "none"

(***************************************************************************)
(* Bounds of the model.                                                    *)
(***************************************************************************)
\* longest text handed to a text extractor
MaxTextLen == 3
\* longest title attribute of a social link
MaxTitleLen == 2
\* longest text of a badge, in tokens
MaxBadgeLen == 2
\* most elements in a list handed to a list extractor (news items, links, badges)
MaxItems == 2
\* most rows of the input file
MaxRows == 2
\* retries the crawler gives a request whose handler failed
MaxRequestRetries == 1
\* the largest maxDomains and numDomainsRequired a widget is mounted with
MaxCart == 2

(***************************************************************************)
(* JavaScript values.  A value is a record tagged with its type t.  The    *)
(* content of a string is a TLA+ string (Str) when no code looks into it   *)
(* and a sequence of characters (Txt) when some code does.                 *)
(***************************************************************************)
Null == [t |-> "null"]
Undefined == [t |-> "undefined"]
NaN == [t |-> "NaN"]
Num(n) == [t |-> "number", n |-> n]
Str(s) == [t |-> "string", s |-> s]
Txt(cs) == [t |-> "string", cs |-> cs]
Obj(o) == [t |-> "object", o |-> o]

\* x || null, for x undefined or a string held as a TLA+ string
OrNull(x) == IF x.t = "undefined" \/ (x.t = "string" /\ x.s = "") THEN Null ELSE x

\* Boolean(x) for the same values
Truthy(x) == x.t = "string" /\ x.s # ""

(***************************************************************************)
(* Strings are sequences of characters.                                    *)
(***************************************************************************)
Digits == {"4", "2"}
Chars == {"4", "2", "a", " ", "-"}
DigitVal(c) == CASE c = "4" -> 4 [] c = "2" -> 2 [] OTHER -> 0
IsDigit(c) == c \in Digits
SeqsUpTo(S, n) == UNION {[1..k -> S] : k \in 0..n}
Texts == UNION {[1..n -> Chars] : n \in 0..MaxTextLen}

RECURSIVE TrimStart(_)
TrimStart(s) == IF s # <<>> /\ Head(s) = " " THEN TrimStart(Tail(s)) ELSE s

RECURSIVE TrimEnd(_)
TrimEnd(s) ==
  IF s # <<>> /\ s[Len(s)] = " " THEN TrimEnd(SubSeq(s, 1, Len(s) - 1)) ELSE s

\* String.prototype.trim
Trim(s) == TrimEnd(TrimStart(s))

\* s.replace(/\D/g, "")
RECURSIVE StripNonDigits(_)
StripNonDigits(s) ==
  IF s = <<>> THEN <<>>
  ELSE IF IsDigit(Head(s)) THEN <<Head(s)>> \o StripNonDigits(Tail(s))
       ELSE StripNonDigits(Tail(s))

\* the longest prefix of s made of digits
RECURSIVE LeadingDigits(_)
LeadingDigits(s) ==
  IF s # <<>> /\ IsDigit(Head(s)) THEN <<Head(s)>> \o LeadingDigits(Tail(s)) ELSE <<>>

\* the number a digit string denotes in base 10
RECURSIVE DecimalValue(_)
DecimalValue(ds) ==
  IF ds = <<>> THEN 0
  ELSE 10 * DecimalValue(SubSeq(ds, 1, Len(ds) - 1)) + DigitVal(ds[Len(ds)])

\* parseInt(s, 10): leading white space is skipped, then an optional sign, then
\* the digits up to the first character that is not one; NaN without a digit
ParseInt(s) ==
  LET t == TrimStart(s)
      neg == t # <<>> /\ Head(t) = "-"
      body == IF neg THEN Tail(t) ELSE t
      ds == LeadingDigits(body)
  IN  IF ds = <<>> THEN NaN
      ELSE Num(IF neg THEN 0 - DecimalValue(ds) ELSE DecimalValue(ds))

(***************************************************************************)
(* Field extractors.  Each takes what its selector finds in the document:  *)
(* the text of the selected element ("" when nothing matches), or the list *)
(* of matching elements in document order.  A call either returns a value  *)
(* or throws: Returned(v) / Threw.                                         *)
(***************************************************************************)
Returned(x) == [threw |-> FALSE, value |-> x]
Threw == [threw |-> TRUE, value |-> <<>>]

\* cheerio's .map(fn).get(): a null or undefined result of fn inserts nothing
RECURSIVE CheerioMapGet(_)
CheerioMapGet(rs) ==
  IF rs = <<>> THEN <<>>
  ELSE IF Head(rs).t \in {"null", "undefined"} THEN CheerioMapGet(Tail(rs))
       ELSE <<Head(rs)>> \o CheerioMapGet(Tail(rs))

\* text.trim() || null on a text held as a sequence of characters:
\* getName, getFounded, getLocation, getDescription, getShortDescription
TextOrNull(text) == IF Trim(text) = <<>> THEN Null ELSE Txt(Trim(text))

getName(text) == TextOrNull(text)
getFounded(text) == TextOrNull(text)

\* getTeamSize as it would be with the digit filter of getNumJobs
getTeamSize_stripping(text) ==
  LET parsedTeamSize == ParseInt(StripNonDigits(Trim(text)))
  IN  IF parsedTeamSize = NaN THEN Null ELSE parsedTeamSize

getTeamSize(text) ==
  LET teamSize == Trim(text)
      parsedTeamSize == ParseInt(teamSize)
  IN  IF parsedTeamSize = NaN THEN Null ELSE parsedTeamSize

getNumJobs(text) ==
  LET numJobsString == Trim(text)
      cleanedNumJobsString == StripNonDigits(numJobsString)
  IN  ParseInt(cleanedNumJobsString)

(***************************************************************************)
(* News.  An item of the #news list: the trimmed text of its title link,   *)
(* the link's href attribute and the trimmed text of the next element.     *)
(***************************************************************************)
DateTexts == {"", "Jan 5, 2023", "Mar 9, 2024", "soon"}
NewsTitles == {"", "Series A"}
Hrefs == {Undefined, Str(""), Str("/x")}
NewsItems == [title : NewsTitles, href : Hrefs, dateText : DateTexts]

\* new Date(s): the time value, "Invalid Date" for a text that is no date
DateOf(s) ==
  CASE s = "Jan 5, 2023" -> "2023-01-05T00:00:00.000Z"
    [] s = "Mar 9, 2024" -> "2024-03-09T00:00:00.000Z"
    [] OTHER -> "Invalid Date"

\* Date.prototype.toISOString throws a RangeError on an invalid date
ToISOStringThrows(d) == d = "Invalid Date"

\* the callback of getNews on one item; called only when it does not throw
NewsCallbackThrows(it) == it.dateText # "" /\ ToISOStringThrows(DateOf(it.dateText))

NewsCallback(it) ==
  LET title == OrNull(Str(it.title))
      link == OrNull(it.href)
      dateString == OrNull(Str(it.dateText))
      date == IF dateString # Null THEN Str(DateOf(it.dateText)) ELSE Null
  IN  IF title = Null \/ link = Null \/ date = Null THEN Null
      ELSE Obj([title |-> title.s, link |-> link.s, date |-> date.s])

getNews(items) ==
  IF \E i \in 1..Len(items) : NewsCallbackThrows(items[i]) THEN Threw
  ELSE Returned(CheerioMapGet([i \in 1..Len(items) |-> NewsCallback(items[i])]))

(***************************************************************************)
(* Social links.  A link: its title attribute (undefined when absent) and  *)
(* its href attribute.  The result maps platform keys to hrefs; a key is a *)
(* sequence of characters.                                                 *)
(***************************************************************************)
TitleChars == {"T", "t", " "}
Titles == UNION {[1..n -> TitleChars] : n \in 0..MaxTitleLen}
LinkHrefs == {Undefined, Str("h1")}
Links == [title : {Undefined} \cup {Txt(s) : s \in Titles}, href : LinkHrefs]

LowerChar(c) ==
  IF c = "T" THEN "t" ELSE IF c = "A" THEN "a" ELSE IF c = "COM" THEN "com" ELSE c
\* String.prototype.toLowerCase
ToLowerCase(s) == [i \in 1..Len(s) |-> LowerChar(s[i])]

\* s.split(" ")[0]: what precedes the first space
RECURSIVE FirstWord(_)
FirstWord(s) ==
  IF s = <<>> \/ Head(s) = " " THEN <<>> ELSE <<Head(s)>> \o FirstWord(Tail(s))

\* the property key JavaScript makes of the value undefined
UndefinedKey == <<"u", "n", "d", "e", "f", "i", "n", "e", "d">>

\* $(this).attr("title")?.split(" ")[0].toLowerCase(), as a property key
PlatformKey(link) ==
  IF link.title = Undefined THEN UndefinedKey
  ELSE ToLowerCase(FirstWord(link.title.cs))

EmptyObject == [k \in {} |-> Undefined]
\* obj[key] = val
SetKey(obj, key, val) ==
  [k \in DOMAIN obj \cup {key} |-> IF k = key THEN val ELSE obj[k]]

\* the body of the .each loop of getCompanySocials and of getFounders
SocialsStep(socials, link) == SetKey(socials, PlatformKey(link), link.href)

RECURSIVE SocialsLoop(_, _)
SocialsLoop(socials, links) ==
  IF links = <<>> THEN socials
  ELSE SocialsLoop(SocialsStep(socials, Head(links)), Tail(links))

getCompanySocials(links) == SocialsLoop(EmptyObject, links)

(***************************************************************************)
(* Badges and batch.  A badge text is a sequence of tokens; "YCL" stands   *)
(* for the marker "Y Combinator Logo" and " " for white space.             *)
(***************************************************************************)
Marker == "YCL"
BadgeToks == {Marker, "W21", " "}
BadgeTexts == UNION {[1..n -> BadgeToks] : n \in 0..MaxBadgeLen}

\* text.includes("Y Combinator Logo")
Includes(text) == \E i \in 1..Len(text) : text[i] = Marker

\* what precedes the first marker of text
RECURSIVE BeforeMarker(_)
BeforeMarker(text) ==
  IF text = <<>> \/ Head(text) = Marker THEN <<>>
  ELSE <<Head(text)>> \o BeforeMarker(Tail(text))

\* what follows the first marker of text; text includes the marker
RECURSIVE AfterMarker(_)
AfterMarker(text) ==
  IF Head(text) = Marker THEN Tail(text) ELSE AfterMarker(Tail(text))

\* text.split("Y Combinator Logo")[1]: undefined when text has no marker
SplitAt1(text) ==
  IF Includes(text) THEN Txt(BeforeMarker(AfterMarker(text))) ELSE Undefined

\* x.trim(), which throws a TypeError on undefined
TrimThrows(x) == x = Undefined

ConcatAll(texts) ==
  LET RECURSIVE cat(_)
      cat(ts) == IF ts = <<>> THEN <<>> ELSE Head(ts) \o cat(Tail(ts))
  IN  cat(texts)

BadgeCallbackThrows(raw) ==
  LET text == Trim(raw) IN Includes(text) /\ TrimThrows(SplitAt1(text))

BadgeCallback(raw) ==
  LET text == Trim(raw)
  IN  IF Includes(text) THEN Txt(Trim(SplitAt1(text).cs)) ELSE Txt(text)

getBadges(badges) ==
  IF \E i \in 1..Len(badges) : BadgeCallbackThrows(badges[i]) THEN Threw
  ELSE Returned(CheerioMapGet([i \in 1..Len(badges) |-> BadgeCallback(badges[i])]))

\* the badges the selector .ycdc-badge:contains("Y Combinator Logo") matches
BatchElements(badges) == SelectSeq(badges, Includes)

getBatch(badges) ==
  LET ycBatchElement == BatchElements(badges)
      part == SplitAt1(Trim(ConcatAll(ycBatchElement)))
  IN  IF Len(ycBatchElement) > 0
      THEN IF TrimThrows(part) THEN Threw ELSE Returned(Txt(Trim(part.cs)))
      ELSE Returned(Null)

(***************************************************************************)
(* Jobs and founders.  Attribute values and texts that no extractor looks  *)
(* into are held as TLA+ strings.                                          *)
(***************************************************************************)
JobElements ==
  [role : {"", "Engineer"}, location : {"", "Remote"}, salary : {"", "$100K"},
   equity : {""}, eligibility : {""}]

JobCallback(el) ==
  [role |-> Str(el.role), location |-> OrNull(Str(el.location)),
   salary |-> OrNull(Str(el.salary)), equity |-> OrNull(Str(el.equity)),
   eligibility |-> OrNull(Str(el.eligibility))]

getJobs(els) == [i \in 1..Len(els) |-> JobCallback(els[i])]

\* a founder element: the card's texts, its image's src attribute, its social
\* links and, in the variant with a description block, the description text
FounderElements ==
  [name : {"Ada"}, imgSrc : {Undefined, Str("/ada.png")}, position : {"", "CEO"},
   links : {<<>>, <<[title |-> Undefined, href |-> Str("h1")]>>,
            <<[title |-> Txt(<<"T", "t">>), href |-> Str("h2")]>>},
   description : {"", "Bio"}]

\* the object built for one founder; withInfo tells the variant.  The entries
\* of socials are spread into the object: they are kept here under "socials"
FounderCallback(el, withInfo) ==
  [name |-> Str(el.name),
   imageUrl |-> el.imgSrc,
   position |-> Str(el.position),
   description |-> IF withInfo THEN OrNull(Str(el.description)) ELSE Null,
   socials |-> SocialsLoop(EmptyObject, el.links)]

\* founderInfo: the description blocks found; founderCard: the cards found
getFounders(founderInfo, founderCard) ==
  IF Len(founderInfo) > 0
  THEN [i \in 1..Len(founderInfo) |-> FounderCallback(founderInfo[i], TRUE)]
  ELSE [i \in 1..Len(founderCard) |-> FounderCallback(founderCard[i], FALSE)]

\* attr("src") || null: getCompanyLogo, getBannerUrl, getCompanyUrl
AttrOrNull(attr) == OrNull(attr)
getCompanyLogo(src) == AttrOrNull(src)

(***************************************************************************)
(* URLs.  A URL is a sequence of tokens, its origin (protocol and host)    *)
(* first; a reference that starts with no origin is relative.              *)
(***************************************************************************)
Origins == {"https://www.ycombinator.com", "https://cdn.example", "https://example.com"}
IsAbsolute(ref) == ref # <<>> /\ Head(ref) \in Origins

getBaseUrl(ycUrl) == <<Head(ycUrl)>>

\* new URL(ref, baseUrl).href
ResolveUrl(ref, baseUrl) == IF IsAbsolute(ref) THEN ref ELSE baseUrl \o ref

(***************************************************************************)
(* Launch sub-pages.  What scrapeLaunchPage's selectors find in the        *)
(* response: the text of the vote counter, the datetime attribute of the   *)
(* .timeago element and the children of the content container, each with   *)
(* its text and the src of its first img and iframe.                       *)
(***************************************************************************)
NoMedia == [text |-> <<>>, imgSrc |-> Undefined, iframeSrc |-> Undefined]

LaunchPageA ==
  [votesText |-> <<"4">>,
   datetime |-> Str("2023-01-05T10:00:00Z"),
   children |-> <<[NoMedia EXCEPT !.text = <<"Hello">>],
                  [NoMedia EXCEPT !.imgSrc = Txt(<<"/img.png">>)]>>]

LaunchPageB ==
  [votesText |-> <<>>,
   datetime |-> Undefined,
   children |-> <<[NoMedia EXCEPT !.text = <<" ">>,
                                  !.iframeSrc = Txt(<<"https://cdn.example", "/v">>)],
                  [NoMedia EXCEPT !.iframeSrc = Txt(<<"https://cdn.example", "/v">>)],
                  NoMedia>>]

LaunchPages == {LaunchPageA, LaunchPageB}

\* the callback of the .map over the children: the fragment the child gives
ChildFragment(child, baseUrl) ==
  LET textContent == Trim(child.text)
  IN  IF Len(textContent) > 0 THEN textContent
      ELSE IF child.imgSrc # Undefined /\ child.imgSrc.cs # <<>>
           THEN ResolveUrl(child.imgSrc.cs, baseUrl)
      ELSE IF child.iframeSrc # Undefined /\ child.iframeSrc.cs # <<>>
           THEN ResolveUrl(child.iframeSrc.cs, baseUrl)
      ELSE <<>>

\* whether the child pushed its fragment to sources
ChildIsMedia(child) ==
  /\ Len(Trim(child.text)) = 0
  /\ \/ child.imgSrc # Undefined /\ child.imgSrc.cs # <<>>
     \/ child.iframeSrc # Undefined /\ child.iframeSrc.cs # <<>>

\* frags.join(" ")
RECURSIVE Join(_)
Join(frags) ==
  IF frags = <<>> THEN <<>>
  ELSE IF Len(frags) = 1 THEN Head(frags)
  ELSE Head(frags) \o <<" ">> \o Join(Tail(frags))

\* the list as it is, duplicates kept
Unique_keepingDuplicates(xs) == xs

\* [...new Set(xs)]: the first occurrence of each element, in order
RECURSIVE Unique(_)
Unique(xs) ==
  IF xs = <<>> THEN <<>>
  ELSE LET init == Unique(SubSeq(xs, 1, Len(xs) - 1))
           last == xs[Len(xs)]
       IN  IF \E i \in 1..Len(init) : init[i] = last THEN init ELSE Append(init, last)

\* what scrapeLaunchPage returns for the response page of url
scrapeLaunchPage(url, page) ==
  LET baseUrl == getBaseUrl(url)
      kids == page.children
      frags == [i \in 1..Len(kids) |-> ChildFragment(kids[i], baseUrl)]
      media == SelectSeq(kids, ChildIsMedia)
      sources == [i \in 1..Len(media) |-> Txt(ChildFragment(media[i], baseUrl))]
      votesParse == ParseInt(Trim(page.votesText))
      votes == IF votesParse = NaN THEN Null ELSE votesParse
  IN  [votes |-> IF votes # Null /\ votes # Num(0) THEN votes ELSE Num(0),
       createdAt |-> page.datetime,
       post |-> Txt(Join(frags)),
       sources |-> Unique(sources)]

(***************************************************************************)
(* The launch pages scrapeLaunchPage is called on by itself: every list of *)
(* up to MaxItems children, each with one of the texts and of the img and  *)
(* iframe sources below, on a page of https://example.com.                 *)
(***************************************************************************)
ChildTexts == {<<>>, <<" ">>, <<"Hello">>, <<" ", "Hello">>}
ImgSrcs == {Undefined, Txt(<<>>), Txt(<<"/img.png">>)}
IframeSrcs == {Undefined, Txt(<<"/img.png">>), Txt(<<"https://cdn.example", "/v">>)}
LaunchChildren == [text : ChildTexts, imgSrc : ImgSrcs, iframeSrc : IframeSrcs]
LaunchUrl == <<"https://example.com", "/launches/1">>
LaunchCalls ==
  [url : {LaunchUrl},
   page : [votesText : {<<"4">>},
           datetime : {Undefined},
           children : SeqsUpTo(LaunchChildren, MaxItems)]]

(***************************************************************************)
(* Launch containers of a company page: the trimmed text of the h3, the    *)
(* href of the "Read Launch" link and the trimmed text of the description. *)
(***************************************************************************)
LaunchFull ==
  [title |-> "Launch", href |-> Txt(<<"/launches/1">>), description |-> "We launch"]
LaunchNoTitle == [LaunchFull EXCEPT !.title = ""]
LaunchNoLink == [LaunchFull EXCEPT !.href = Undefined]
LaunchNoDescription == [LaunchFull EXCEPT !.description = ""]
LaunchOther == [LaunchFull EXCEPT !.href = Txt(<<"/launches/2">>)]

\* the absolute link of a container, null without href
LaunchLink(c, baseUrl) ==
  IF c.href # Undefined /\ c.href.cs # <<>>
  THEN Txt(ResolveUrl(c.href.cs, baseUrl)) ELSE Null

\* the container passes the test before the fetch: it has the three fields
Qualifies(c, baseUrl) ==
  ~(c.title = "" \/ c.description = "" \/ LaunchLink(c, baseUrl) = Null)

\* { title, link, description, ...scrapedLaunchPage }
LaunchPostOf(c, baseUrl, scraped) ==
  Obj([title |-> Str(c.title), link |-> LaunchLink(c, baseUrl),
       description |-> Str(c.description), votes |-> scraped.votes,
       createdAt |-> scraped.createdAt, post |-> scraped.post,
       sources |-> scraped.sources])

(***************************************************************************)
(* Company pages: what each selector of the request handler finds.         *)
(***************************************************************************)
PageBare ==
  [nameText |-> <<>>, foundedText |-> <<>>, teamSizeText |-> <<>>,
   numJobsText |-> <<>>, logoSrc |-> Undefined, badges |-> <<>>, jobs |-> <<>>,
   founderInfo |-> <<>>, founderCard |-> <<>>, socialLinks |-> <<>>,
   news |-> <<>>, launches |-> <<>>]

GoodNews == [title |-> "Series A", href |-> Str("/x"), dateText |-> "Jan 5, 2023"]
Founder ==
  [name |-> "Ada", imgSrc |-> Str("/ada.png"), position |-> "CEO",
   links |-> <<[title |-> Txt(<<"T", "t">>), href |-> Str("h2")]>>,
   description |-> "Bio"]

PageFull ==
  [nameText |-> <<"a">>, foundedText |-> <<"2">>, teamSizeText |-> <<"4", "2">>,
   numJobsText |-> <<"2", " ", "a">>, logoSrc |-> Str("/logo.png"),
   badges |-> <<<<Marker, "W21">>>>,
   jobs |-> <<[role |-> "Engineer", location |-> "Remote", salary |-> "",
               equity |-> "", eligibility |-> ""]>>,
   founderInfo |-> <<Founder>>, founderCard |-> <<Founder>>,
   socialLinks |-> <<[title |-> Txt(<<"T", " ">>), href |-> Str("h1")]>>,
   news |-> <<GoodNews>>,
   launches |-> <<LaunchFull>>]

\* a page with launch containers that lack a field
PageLaunches ==
  [PageFull EXCEPT !.launches = <<LaunchNoTitle, LaunchFull, LaunchOther>>,
                   !.founderInfo = <<>>,
                   !.news = <<GoodNews, [GoodNews EXCEPT !.dateText = ""]>>]

\* a page whose elements lack attributes
PageSparse ==
  [PageBare EXCEPT !.nameText = <<"a">>,
                   !.founderCard = <<[Founder EXCEPT !.imgSrc = Undefined]>>,
                   !.socialLinks = <<[title |-> Undefined, href |-> Str("h1")],
                                     [title |-> Txt(<<"T">>), href |-> Undefined]>>,
                   !.launches = <<LaunchNoLink, LaunchNoDescription>>]

\* a page with a news item whose date text is no date
PageBadNews ==
  [PageFull EXCEPT !.news = <<GoodNews, [GoodNews EXCEPT !.dateText = "soon"]>>]

Pages == {PageBare, PageFull, PageLaunches, PageSparse, PageBadNews}

(***************************************************************************)
(* JSON.  JSON.stringify writes null for NaN and for an undefined or null  *)
(* array element, and leaves out an object entry whose value is undefined. *)
(* A JSON document is held as the tree of its literals.                    *)
(***************************************************************************)
JsonScalar(x) ==
  IF x.t \in {"null", "NaN", "undefined"} THEN [lit |-> "null"]
  ELSE [lit |-> x.t, of |-> x]

ParseScalar(j) == IF j.lit = "null" THEN Null ELSE j.of

\* an object whose values are all scalars
JsonFlat(o) == [k \in {k \in DOMAIN o : o[k].t # "undefined"} |-> JsonScalar(o[k])]
ParseFlat(j) == [k \in DOMAIN j |-> ParseScalar(j[k])]

JsonScalars(xs) == [i \in 1..Len(xs) |-> JsonScalar(xs[i])]
ParseScalars(js) == [i \in 1..Len(js) |-> ParseScalar(js[i])]

JsonFlats(os) == [i \in 1..Len(os) |-> JsonFlat(os[i])]
ParseFlats(js) == [i \in 1..Len(js) |-> ParseFlat(js[i])]

Restrict(o, keys) == [k \in keys |-> o[k]]
FounderScalars == {"name", "imageUrl", "position", "description"}

JsonFounder(f) ==
  [scalars |-> JsonFlat(Restrict(f, FounderScalars)), socials |-> JsonFlat(f.socials)]
ParseFounder(j) ==
  LET sc == ParseFlat(j.scalars)
  IN  [k \in DOMAIN sc \cup {"socials"} |->
         IF k = "socials" THEN ParseFlat(j.socials) ELSE sc[k]]

LaunchScalars == {"title", "link", "description", "votes", "createdAt", "post"}

JsonLaunchPost(p) ==
  IF p.t = "null" THEN [lit |-> "null"]
  ELSE [lit |-> "object", scalars |-> JsonFlat(Restrict(p.o, LaunchScalars)),
        sources |-> JsonScalars(p.o.sources)]
ParseLaunchPost(j) ==
  IF j.lit = "null" THEN Null
  ELSE LET sc == ParseFlat(j.scalars)
       IN  Obj([k \in DOMAIN sc \cup {"sources"} |->
                  IF k = "sources" THEN ParseScalars(j.sources) ELSE sc[k]])

JsonNews(n) == [lit |-> "object", scalars |-> JsonFlat([k \in DOMAIN n.o |-> Str(n.o[k])])]
ParseNews(j) ==
  LET sc == ParseFlat(j.scalars) IN Obj([k \in DOMAIN sc |-> sc[k].s])

StartupScalars ==
  {"name", "ycUrl", "logo", "founded", "teamSize", "ycBatch", "numJobs"}

\* one record of the output collection, as JSON.stringify writes it
JsonStartup(r) ==
  [scalars |-> JsonFlat(Restrict(r, StartupScalars)),
   badges |-> JsonScalars(r.badges),
   jobs |-> JsonFlats(r.jobs),
   founders |-> [i \in 1..Len(r.founders) |-> JsonFounder(r.founders[i])],
   launchPosts |-> [i \in 1..Len(r.launchPosts) |-> JsonLaunchPost(r.launchPosts[i])],
   socialMedia |-> JsonFlat(r.socialMedia),
   news |-> [i \in 1..Len(r.news) |-> JsonNews(r.news[i])]]

\* the record JSON.parse makes of it
ParseStartup(j) ==
  LET sc == ParseFlat(j.scalars)
      rest == [badges |-> ParseScalars(j.badges),
               jobs |-> ParseFlats(j.jobs),
               founders |-> [i \in 1..Len(j.founders) |-> ParseFounder(j.founders[i])],
               launchPosts |->
                 [i \in 1..Len(j.launchPosts) |-> ParseLaunchPost(j.launchPosts[i])],
               socialMedia |-> ParseFlat(j.socialMedia),
               news |-> [i \in 1..Len(j.news) |-> ParseNews(j.news[i])]]
  IN  [k \in DOMAIN sc \cup DOMAIN rest |-> IF k \in DOMAIN rest THEN rest[k] ELSE sc[k]]

\* JSON.stringify(scrapedData, null, 2) and JSON.parse of its result
JSONStringify(data) == [i \in 1..Len(data) |-> JsonStartup(data[i])]
JSONParse(doc) == [i \in 1..Len(doc) |-> ParseStartup(doc[i])]

(***************************************************************************)
(* The pipeline: processCompanyList, parseCompanyList, scrapeCompanyPages. *)
(***************************************************************************)
Urls ==
  {<<"https://www.ycombinator.com", "/companies/a">>,
   <<"https://www.ycombinator.com", "/companies/b">>}

\* a row of the input file: one the CSV parser accepts, with its company URL,
\* or one it reports as an error
Rows ==
  {[malformed |-> FALSE, companyName |-> "Acme", ycUrl |-> u] : u \in Urls}
    \cup {[malformed |-> TRUE, companyName |-> "", ycUrl |-> <<>>]}

NoRequest ==
  [st |-> "none", retries |-> 0, page |-> PageBare, launch |-> <<>>,
   launchFailed |-> FALSE]

PipeInit ==
  /\ pc = "parseCompanyList"
  /\ csvRows \in SeqsUpTo(Rows, MaxRows)
  /\ rowIdx = 0
  /\ companies = <<>>
  /\ errorLog = 0
  /\ req = [u \in Urls |-> NoRequest]
  /\ scrapedData = <<>>
  /\ outDir = FALSE
  /\ outFile = <<>>
  /\ CartIdle
  /\ fn = "none"
  /\ arg = <<>>
  /\ called = FALSE
  /\ ret = Returned(Null)

\* the "data" event of the parser: the next row becomes a company
ParseRow ==
  /\ pc = "parseCompanyList"
  /\ rowIdx < Len(csvRows)
  /\ ~csvRows[rowIdx + 1].malformed
  /\ companies' = Append(companies,
                         [companyName |-> csvRows[rowIdx + 1].companyName,
                          ycUrl |-> csvRows[rowIdx + 1].ycUrl])
  /\ rowIdx' = rowIdx + 1
  /\ UNCHANGED <<pc, csvRows, errorLog, req, scrapedData, outFile, outDir>>
  /\ UNCHANGED <<extVars, cartVars>>

\* a parser that logs the bad row and goes on with the next one
ParseError_skippingRow ==
  /\ pc = "parseCompanyList"
  /\ rowIdx < Len(csvRows)
  /\ csvRows[rowIdx + 1].malformed
  /\ errorLog' = errorLog + 1
  /\ rowIdx' = rowIdx + 1
  /\ UNCHANGED <<pc, csvRows, companies, req, scrapedData, outFile, outDir>>
  /\ UNCHANGED <<extVars, cartVars>>

\* the "error" event of the parser: the first listener logs the error, the
\* second rejects the promise processCompanyList awaits, which ends the run
ParseError ==
  /\ pc = "parseCompanyList"
  /\ rowIdx < Len(csvRows)
  /\ csvRows[rowIdx + 1].malformed
  /\ errorLog' = errorLog + 1
  /\ pc' = "aborted"
  /\ UNCHANGED <<csvRows, rowIdx, companies, req, scrapedData, outFile, outDir>>
  /\ UNCHANGED <<extVars, cartVars>>

\* the "end" event: the promise resolves to the companies
ParseEnd ==
  /\ pc = "parseCompanyList"
  /\ rowIdx = Len(csvRows)
  /\ pc' = "createDir"
  /\ UNCHANGED <<csvRows, rowIdx, companies, errorLog, req, scrapedData, outFile, outDir>>
  /\ UNCHANGED <<extVars, cartVars>>

\* createDir resolves: the output directory exists
CreateDir ==
  /\ pc = "createDir"
  /\ outDir' = TRUE
  /\ pc' = "scrapeCompanyPages"
  /\ UNCHANGED <<csvRows, rowIdx, companies, errorLog, req, scrapedData, outFile>>
  /\ UNCHANGED <<extVars, cartVars>>

\* createDir rejects: nothing catches it, processCompanyList rejects
CreateDirFails ==
  /\ pc = "createDir"
  /\ pc' = "aborted"
  /\ UNCHANGED <<csvRows, rowIdx, companies, errorLog, req, scrapedData, outFile, outDir>>
  /\ UNCHANGED <<extVars, cartVars>>

\* crawler.run(urls): the request queue keeps one request per URL
RunCrawler ==
  /\ pc = "scrapeCompanyPages"
  /\ scrapedData' = <<>>
  /\ req' = [u \in Urls |->
               IF \E i \in 1..Len(companies) : companies[i].ycUrl = u
               THEN [NoRequest EXCEPT !.st = "queued"] ELSE NoRequest]
  /\ pc' = "crawling"
  /\ UNCHANGED <<csvRows, rowIdx, companies, errorLog, outFile, outDir>>
  /\ UNCHANGED <<extVars, cartVars>>

\* crawler.run rejects at once (it does not accept the list of URLs)
RunCrawlerFails ==
  /\ pc = "scrapeCompanyPages"
  /\ pc' = "aborted"
  /\ UNCHANGED <<csvRows, rowIdx, companies, errorLog, req, scrapedData, outFile, outDir>>
  /\ UNCHANGED <<extVars, cartVars>>

\* the request of a handler that threw: queued again while it has retries left
Reclaimed(r) ==
  IF r.retries < MaxRequestRetries
  THEN [r EXCEPT !.st = "queued", !.retries = r.retries + 1, !.launch = <<>>]
  ELSE [r EXCEPT !.st = "failed", !.launch = <<>>]

\* the fetch of the company page itself fails: the handler is not called
NavigationFails(u) ==
  /\ pc = "crawling"
  /\ req[u].st = "queued"
  /\ req' = [req EXCEPT ![u] = Reclaimed([req[u] EXCEPT !.launchFailed = FALSE])]
  /\ UNCHANGED <<pc, csvRows, rowIdx, companies, errorLog, scrapedData, outFile, outDir>>
  /\ UNCHANGED <<extVars, cartVars>>

\* the launch promises getAllLaunchPosts creates: a container lacking a field
\* resolves to null at once, the others wait for their fetch
LaunchPromises(page, baseUrl) ==
  [i \in 1..Len(page.launches) |->
     IF Qualifies(page.launches[i], baseUrl)
     THEN [st |-> "pending", post |-> Null]
     ELSE [st |-> "resolved", post |-> Null]]

\* the synchronous extractors of the handler, in the order it calls them
SyncExtractorThrows(page) ==
  \/ getNews(page.news).threw
  \/ getBadges(page.badges).threw
  \/ getBatch(page.badges).threw

\* the record the handler pushes
StartupOf(u, page, launchPosts) ==
  [name |-> getName(page.nameText),
   ycUrl |-> Txt(u),
   logo |-> getCompanyLogo(page.logoSrc),
   founded |-> getFounded(page.foundedText),
   teamSize |-> getTeamSize(page.teamSizeText),
   ycBatch |-> getBatch(page.badges).value,
   badges |-> getBadges(page.badges).value,
   numJobs |-> getNumJobs(page.numJobsText),
   jobs |-> getJobs(page.jobs),
   founders |-> getFounders(page.founderInfo, page.founderCard),
   launchPosts |-> launchPosts,
   socialMedia |-> getCompanySocials(page.socialLinks),
   news |-> getNews(page.news).value]

\* a handler that pushes what it has before it awaits the launch posts
HandlerExtract_pushingEarly(u, page) ==
  /\ pc = "crawling"
  /\ req[u].st = "queued"
  /\ IF SyncExtractorThrows(page)
     THEN /\ req' = [req EXCEPT ![u] = Reclaimed([req[u] EXCEPT !.page = page,
                                                              !.launchFailed = FALSE])]
          /\ UNCHANGED scrapedData
     ELSE /\ req' = [req EXCEPT ![u] =
                       [@ EXCEPT !.st = "running", !.page = page,
                                 !.launchFailed = FALSE,
                                 !.launch = LaunchPromises(page, getBaseUrl(u))]]
          /\ scrapedData' = Append(scrapedData, StartupOf(u, page, <<>>))
  /\ UNCHANGED <<pc, csvRows, rowIdx, companies, errorLog, outFile, outDir>>
  /\ UNCHANGED <<extVars, cartVars>>

\* requestHandler up to its await: the page has been fetched and parsed, the
\* extractors run, getAllLaunchPosts starts one fetch per qualifying container
HandlerExtract(u, page) ==
  /\ pc = "crawling"
  /\ req[u].st = "queued"
  /\ IF SyncExtractorThrows(page)
     THEN req' = [req EXCEPT ![u] = Reclaimed([req[u] EXCEPT !.page = page,
                                                           !.launchFailed = FALSE])]
     ELSE req' = [req EXCEPT ![u] =
                    [@ EXCEPT !.st = "running", !.page = page,
                              !.launchFailed = FALSE,
                              !.launch = LaunchPromises(page, getBaseUrl(u))]]
  /\ UNCHANGED <<pc, csvRows, rowIdx, companies, errorLog, scrapedData, outFile, outDir>>
  /\ UNCHANGED <<extVars, cartVars>>

\* axios.get of launch page i resolves: the promise resolves to the launch post
LaunchFetchResolves(u, i, lp) ==
  /\ pc = "crawling"
  /\ req[u].st = "running"
  /\ i \in 1..Len(req[u].launch)
  /\ req[u].launch[i].st = "pending"
  /\ LET c == req[u].page.launches[i]
         baseUrl == getBaseUrl(u)
         link == LaunchLink(c, baseUrl)
     IN  req' = [req EXCEPT ![u].launch[i] =
                   [st |-> "resolved",
                    post |-> LaunchPostOf(c, baseUrl, scrapeLaunchPage(link.cs, lp))]]
  /\ UNCHANGED <<pc, csvRows, rowIdx, companies, errorLog, scrapedData, outFile, outDir>>
  /\ UNCHANGED <<extVars, cartVars>>

\* axios.get of launch page i rejects: nothing catches it, so Promise.all
\* rejects, getAllLaunchPosts throws and so does the handler
LaunchFetchRejects(u, i) ==
  /\ pc = "crawling"
  /\ req[u].st = "running"
  /\ i \in 1..Len(req[u].launch)
  /\ req[u].launch[i].st = "pending"
  /\ req' = [req EXCEPT ![u] = Reclaimed([req[u] EXCEPT !.launchFailed = TRUE])]
  /\ UNCHANGED <<pc, csvRows, rowIdx, companies, errorLog, scrapedData, outFile, outDir>>
  /\ UNCHANGED <<extVars, cartVars>>

\* launch posts with the null results taken out
PromiseAll_withoutNulls(launch) ==
  CheerioMapGet([i \in 1..Len(launch) |-> launch[i].post])

\* what Promise.all(launchPromises) resolves to: every result, in order
PromiseAll(launch) == [i \in 1..Len(launch) |-> launch[i].post]

\* a handler that puts its record at the front of the output collection
HandlerPush_unshifting(u) ==
  /\ pc = "crawling"
  /\ req[u].st = "running"
  /\ \A i \in 1..Len(req[u].launch) : req[u].launch[i].st = "resolved"
  /\ scrapedData' =
       <<StartupOf(u, req[u].page, PromiseAll(req[u].launch))>> \o scrapedData
  /\ req' = [req EXCEPT ![u].st = "done"]
  /\ UNCHANGED <<pc, csvRows, rowIdx, companies, errorLog, outFile, outDir>>
  /\ UNCHANGED <<extVars, cartVars>>

\* a handler that writes the output file each time it has pushed a record
HandlerPush_writingFile(u) ==
  /\ pc = "crawling"
  /\ req[u].st = "running"
  /\ \A i \in 1..Len(req[u].launch) : req[u].launch[i].st = "resolved"
  /\ scrapedData' =
       Append(scrapedData, StartupOf(u, req[u].page, PromiseAll(req[u].launch)))
  /\ outFile' = <<JSONStringify(scrapedData')>>
  /\ req' = [req EXCEPT ![u].st = "done"]
  /\ UNCHANGED <<pc, csvRows, rowIdx, companies, errorLog, outDir>>
  /\ UNCHANGED <<extVars, cartVars>>

\* a handler that pushes as soon as one launch page has been fetched
HandlerPush_afterFirstFetch(u) ==
  /\ pc = "crawling"
  /\ req[u].st = "running"
  /\ \/ req[u].launch = <<>>
     \/ \E i \in 1..Len(req[u].launch) : req[u].launch[i].st = "resolved"
  /\ scrapedData' =
       Append(scrapedData, StartupOf(u, req[u].page, PromiseAll(req[u].launch)))
  /\ req' = [req EXCEPT ![u].st = "done"]
  /\ UNCHANGED <<pc, csvRows, rowIdx, companies, errorLog, outFile, outDir>>
  /\ UNCHANGED <<extVars, cartVars>>

\* requestHandler after its await: every launch promise has resolved, the
\* record is pushed and the request is done
HandlerPush(u) ==
  /\ pc = "crawling"
  /\ req[u].st = "running"
  /\ \A i \in 1..Len(req[u].launch) : req[u].launch[i].st = "resolved"
  /\ scrapedData' =
       Append(scrapedData, StartupOf(u, req[u].page, PromiseAll(req[u].launch)))
  /\ req' = [req EXCEPT ![u].st = "done"]
  /\ UNCHANGED <<pc, csvRows, rowIdx, companies, errorLog, outFile, outDir>>
  /\ UNCHANGED <<extVars, cartVars>>

\* crawler.run resolves once no request is queued or running
CrawlerDone ==
  /\ pc = "crawling"
  /\ \A u \in Urls : req[u].st \in {"none", "done", "failed"}
  /\ pc' = "writeFile"
  /\ UNCHANGED <<csvRows, rowIdx, companies, errorLog, req, scrapedData, outFile, outDir>>
  /\ UNCHANGED <<extVars, cartVars>>

WriteFile ==
  /\ pc = "writeFile"
  /\ outFile' = <<JSONStringify(scrapedData)>>
  /\ pc' = "done"
  /\ UNCHANGED <<csvRows, rowIdx, companies, errorLog, req, scrapedData, outDir>>
  /\ UNCHANGED <<extVars, cartVars>>

Next ==
  \/ ParseRow
  \/ ParseError
  \/ ParseEnd
  \/ CreateDir
  \/ CreateDirFails
  \/ RunCrawler
  \/ RunCrawlerFails
  \/ \E u \in Urls : NavigationFails(u)
  \/ \E u \in Urls, page \in Pages : HandlerExtract(u, page)
  \/ \E u \in Urls : \E i \in 1..Len(req[u].launch), lp \in LaunchPages :
       LaunchFetchResolves(u, i, lp)
  \/ \E u \in Urls : \E i \in 1..Len(req[u].launch) : LaunchFetchRejects(u, i)
  \/ \E u \in Urls : HandlerPush(u)
  \/ CrawlerDone
  \/ WriteFile

Spec == PipeInit /\ [][Next]_vars

(***************************************************************************)
(* The Domain Shopper widget (Challenge, InputDomain, Cart, EditModal,     *)
(* Buttons).  A text is a sequence of pieces: single characters, and the   *)
(* runs "b4", "com", "COM", "app", "xyz", "org", "http://" and "https://"   *)
(* that stand for the characters they spell.                               *)
(***************************************************************************)
AVAILABLE == "Available"
TAKEN == "Taken"

\* what the user types into the input of the widget or of an edit modal
Inputs ==
  {<<>>, <<" ">>,
   <<"a", ".", "com">>, <<" ", "A", ".", "COM", " ">>, <<" ", "b4", ".", "COM">>,
   <<"a", "-", "a", ".", "app">>, <<"a", ".", "xyz">>,
   <<"http://", "a", ".", "com">>, <<"https://", "a", ".", "xyz">>,
   <<"a">>, <<"a", "com">>, <<".", "com">>, <<"a", ".">>, <<"a", ".", "org">>,
   <<"a", ".", "b4", ".", "com">>, <<"a", " ", "a", ".", "com">>}

\* the entries a cart can hold of them
CartEntries ==
  [domain : {<<"a", ".", "com">>, <<"b4", ".", "com">>,
             <<"a", "-", "a", ".", "app">>, <<"a", ".", "xyz">>},
   status : {AVAILABLE, TAKEN}]

\* a handler that drops the whole cart when a domain of it is Taken
removeUnavailableDomains_clearing(c) ==
  IF Len(c) = 0
  THEN [set |-> FALSE, cart |-> c, toast |-> "Empty Cart"]
  ELSE IF \A i \in 1..Len(c) : c[i].status = AVAILABLE
  THEN [set |-> FALSE, cart |-> c, toast |-> "No Unavailable Domains"]
  ELSE [set |-> TRUE, cart |-> <<>>, toast |-> "Unavailable Domains Removed"]

\* removeUnavailableDomains in a render whose cart is c: whether it calls
\* setCart, the cart of the next render, and the notification it shows
removeUnavailableDomains(c) ==
  IF Len(c) = 0
  THEN [set |-> FALSE, cart |-> c, toast |-> "Empty Cart"]
  ELSE IF \A i \in 1..Len(c) : c[i].status = AVAILABLE
  THEN [set |-> FALSE, cart |-> c, toast |-> "No Unavailable Domains"]
  ELSE [set |-> TRUE,
        cart |-> SelectSeq(c, LAMBDA item : item.status = AVAILABLE),
        toast |-> "Unavailable Domains Removed"]

\* the carts removeUnavailableDomains is called on by itself
RemoveUnavailableCalls == SeqsUpTo(CartEntries, MaxCart + 1)

\* the calls of keepBestDomains taken by themselves
KeepBestCalls == [cart : SeqsUpTo(CartEntries, MaxCart + 1), n : 0..MaxCart + 1]

\* the number of characters of a piece
PieceLength(c) ==
  CASE c \in {"com", "COM", "app", "xyz", "org"} -> 3
    [] c = "b4" -> 2
    [] c = "http://" -> 7
    [] c = "https://" -> 8
    [] OTHER -> 1

\* s.length
RECURSIVE StringLength(_)
StringLength(s) == IF s = <<>> THEN 0 ELSE PieceLength(Head(s)) + StringLength(Tail(s))

\* data.trim().toLowerCase()
normalizedData(data) == ToLowerCase(Trim(data))

\* the pieces [a-zA-Z0-9-]+ matches
IsLabelPiece(c) == c \in {"a", "A", "b4", "com", "COM", "app", "xyz", "org", "-"}

\* /^[a-zA-Z0-9-]+(\.[a-zA-Z0-9-]+)?$/.test(s)
MatchesDomainRegex(s) ==
  LET dots == {i \in 1..Len(s) : s[i] = "."}
  IN  /\ s # <<>>
      /\ \A i \in 1..Len(s) : i \notin dots => IsLabelPiece(s[i])
      /\ Cardinality(dots) <= 1
      /\ \A i \in dots : i > 1 /\ i < Len(s)

validTLDs == {<<".", "com">>, <<".", "xyz">>, <<".", "app">>}

\* s.endsWith(tld)
EndsWith(s, tld) ==
  Len(s) >= Len(tld) /\ SubSeq(s, Len(s) - Len(tld) + 1, Len(s)) = tld

isValidDomain(domain) ==
  LET trimmedDomain == normalizedData(domain)
  IN  /\ \E tld \in validTLDs : EndsWith(trimmedDomain, tld)
      /\ MatchesDomainRegex(trimmedDomain)

\* s.includes("https://") || s.includes("http://")
IncludesScheme(s) == \E i \in 1..Len(s) : s[i] \in {"https://", "http://"}

\* a check that lets a domain of the cart in again
handleErrors_allowingDuplicates(value) ==
  LET normalized == normalizedData(value)
      refuse(title) == [ok |-> FALSE, value |-> <<>>, toast |-> title]
  IN  IF normalized = <<>> THEN refuse("Empty Domain")
      ELSE IF Len(cart) >= maxDomains THEN refuse("Max Domains")
      ELSE IF IncludesScheme(normalized) THEN refuse("Invalid Domain")
      ELSE IF ~isValidDomain(normalized) THEN refuse("Invalid Domain")
      ELSE [ok |-> TRUE, value |-> normalized, toast |-> "none"]

\* a check that does not look at the size of the cart
handleErrors_withoutLimit(value) ==
  LET normalized == normalizedData(value)
      refuse(title) == [ok |-> FALSE, value |-> <<>>, toast |-> title]
  IN  IF normalized = <<>> THEN refuse("Empty Domain")
      ELSE IF \E i \in 1..Len(cart) : cart[i].domain = normalized
           THEN refuse("Duplicate Domain")
      ELSE IF IncludesScheme(normalized) THEN refuse("Invalid Domain")
      ELSE IF ~isValidDomain(normalized) THEN refuse("Invalid Domain")
      ELSE [ok |-> TRUE, value |-> normalized, toast |-> "none"]

\* a check that takes the trimmed text as it was typed
handleErrors_keepingCase(value) ==
  LET normalized == normalizedData(value)
      refuse(title) == [ok |-> FALSE, value |-> <<>>, toast |-> title]
  IN  IF normalized = <<>> THEN refuse("Empty Domain")
      ELSE IF Len(cart) >= maxDomains THEN refuse("Max Domains")
      ELSE IF \E i \in 1..Len(cart) : cart[i].domain = normalized
           THEN refuse("Duplicate Domain")
      ELSE IF IncludesScheme(normalized) THEN refuse("Invalid Domain")
      ELSE IF ~isValidDomain(normalized) THEN refuse("Invalid Domain")
      ELSE [ok |-> TRUE, value |-> Trim(value), toast |-> "none"]

\* handleErrors of the current render: the normalized value, or the title of
\* the notification it shows when it returns undefined
handleErrors(value) ==
  LET normalized == normalizedData(value)
      refuse(title) == [ok |-> FALSE, value |-> <<>>, toast |-> title]
  IN  IF normalized = <<>> THEN refuse("Empty Domain")
      ELSE IF Len(cart) >= maxDomains THEN refuse("Max Domains")
      ELSE IF \E i \in 1..Len(cart) : cart[i].domain = normalized
           THEN refuse("Duplicate Domain")
      ELSE IF IncludesScheme(normalized) THEN refuse("Invalid Domain")
      ELSE IF ~isValidDomain(normalized) THEN refuse("Invalid Domain")
      ELSE [ok |-> TRUE, value |-> normalized, toast |-> "none"]

\* domain.split(".").pop() || ""
RECURSIVE LastPart(_)
LastPart(domain) ==
  IF \A i \in 1..Len(domain) : domain[i] # "." THEN domain
  ELSE LastPart(Tail(domain))

\* TLD_PRIORITY[ending]
TLD_PRIORITY(ending) ==
  CASE ending = <<"com">> -> Num(0)
    [] ending = <<"app">> -> Num(1)
    [] ending = <<"xyz">> -> Num(2)
    [] OTHER -> Undefined

\* the compare function keepBestDomains sorts with; a NaN difference is
\* returned as it is, and sort takes it for 0
CompareDomains(a, b) ==
  LET pa == TLD_PRIORITY(LastPart(a.domain))
      pb == TLD_PRIORITY(LastPart(b.domain))
  IN  IF pa = Undefined \/ pb = Undefined THEN 0
      ELSE IF pa.n - pb.n # 0 THEN pa.n - pb.n
      ELSE StringLength(a.domain) - StringLength(b.domain)

\* Array.prototype.sort with that function: stable, so an entry goes behind
\* the entries before it that do not compare greater
RECURSIVE SortDomains(_)
SortDomains(xs) ==
  IF xs = <<>> THEN <<>>
  ELSE LET init == SortDomains(SubSeq(xs, 1, Len(xs) - 1))
           x == xs[Len(xs)]
           k == Cardinality({i \in 1..Len(init) :
                              \A j \in 1..i : CompareDomains(init[j], x) <= 0})
       IN  SubSeq(init, 1, k) \o <<x>> \o SubSeq(init, k + 1, Len(init))

\* xs.slice(0, n) for n >= 0
Slice0(xs, n) == SubSeq(xs, 1, IF n < Len(xs) THEN n ELSE Len(xs))

\* keep-top that cuts the cart without sorting it
keepBestDomains_unsorted(c, n) == Slice0(c, n)

\* what keepBestDomains returns (for a cart that is not empty the array it is
\* given is sorted in place on the way)
keepBestDomains(c, n) == IF c = <<>> THEN <<>> ELSE Slice0(SortDomains(c), n)

(***************************************************************************)
(* SpecExtract: one extractor is called once on one input.                 *)
(***************************************************************************)
\* no run of the pipeline
PipeIdle ==
  /\ pc = "idle"
  /\ csvRows = <<>>
  /\ rowIdx = 0
  /\ companies = <<>>
  /\ errorLog = 0
  /\ req = [u \in Urls |-> NoRequest]
  /\ scrapedData = <<>>
  /\ outDir = FALSE
  /\ outFile = <<>>

TextExtractors == {"getName", "getFounded", "getTeamSize", "getNumJobs"}
BadgeExtractors == {"getBadges", "getBatch"}

ExtractInit ==
  /\ called = FALSE
  /\ ret = Returned(Null)
  /\ \/ fn \in TextExtractors /\ arg \in Texts
     \/ fn = "getNews" /\ arg \in SeqsUpTo(NewsItems, MaxItems)
     \/ fn = "getCompanySocials" /\ arg \in SeqsUpTo(Links, MaxItems)
     \/ fn \in BadgeExtractors /\ arg \in SeqsUpTo(BadgeTexts, MaxItems)
     \/ fn = "scrapeLaunchPage" /\ arg \in LaunchCalls
     \/ fn = "keepBestDomains" /\ arg \in KeepBestCalls
     \/ fn = "removeUnavailableDomains" /\ arg \in RemoveUnavailableCalls
     \/ fn = "getJobs" /\ arg \in SeqsUpTo(JobElements, 1)
     \/ /\ fn = "getFounders"
        /\ arg \in [founderInfo : SeqsUpTo(FounderElements, 1),
                    founderCard : SeqsUpTo(FounderElements, 1)]
  /\ PipeIdle
  /\ CartIdle

\* the call returns or throws
Finish(outcome) ==
  /\ ~called
  /\ called' = TRUE
  /\ ret' = outcome
  /\ UNCHANGED <<fn, arg>>
  /\ UNCHANGED <<pipeVars, cartVars>>

Call_getName ==
  /\ fn = "getName"
  /\ Finish(Returned(getName(arg)))

Call_getFounded ==
  /\ fn = "getFounded"
  /\ Finish(Returned(getFounded(arg)))

Call_getTeamSize ==
  /\ fn = "getTeamSize"
  /\ Finish(Returned(getTeamSize(arg)))

Call_getNumJobs ==
  /\ fn = "getNumJobs"
  /\ Finish(Returned(getNumJobs(arg)))

Call_getNews ==
  /\ fn = "getNews"
  /\ Finish(getNews(arg))

Call_getCompanySocials ==
  /\ fn = "getCompanySocials"
  /\ Finish(Returned(getCompanySocials(arg)))

Call_getBadges ==
  /\ fn = "getBadges"
  /\ Finish(getBadges(arg))

Call_getBatch ==
  /\ fn = "getBatch"
  /\ Finish(getBatch(arg))

Call_getJobs ==
  /\ fn = "getJobs"
  /\ Finish(Returned(getJobs(arg)))

Call_getFounders ==
  /\ fn = "getFounders"
  /\ Finish(Returned(getFounders(arg.founderInfo, arg.founderCard)))

Call_scrapeLaunchPage ==
  /\ fn = "scrapeLaunchPage"
  /\ Finish(Returned(Obj(scrapeLaunchPage(arg.url, arg.page))))

Call_keepBestDomains ==
  /\ fn = "keepBestDomains"
  /\ Finish(Returned(keepBestDomains(arg.cart, arg.n)))

Call_removeUnavailableDomains ==
  /\ fn = "removeUnavailableDomains"
  /\ Finish(Returned(removeUnavailableDomains(arg)))

ExtractNext ==
  \/ Call_getName
  \/ Call_getFounded
  \/ Call_getTeamSize
  \/ Call_getNumJobs
  \/ Call_getNews
  \/ Call_getCompanySocials
  \/ Call_getBadges
  \/ Call_getBatch
  \/ Call_getJobs
  \/ Call_getFounders
  \/ Call_scrapeLaunchPage
  \/ Call_keepBestDomains
  \/ Call_removeUnavailableDomains

SpecExtract == ExtractInit /\ [][ExtractNext]_vars

(***************************************************************************)
(* The widget as a state machine.                                          *)
(***************************************************************************)
\* the widget is mounted with its props; the state is that of the useState
\* calls
CartInit ==
  /\ maxDomains \in 1..MaxCart
  /\ numDomainsRequired \in 0..MaxCart
  /\ cart = <<>>
  /\ inputValue = <<>>
  /\ isValidateLoading = FALSE
  /\ pending = <<>>
  /\ toast = "none"
  /\ PipeIdle
  /\ fn = "none"
  /\ arg = <<>>
  /\ called = FALSE
  /\ ret = Returned(Null)

Props == <<maxDomains, numDomainsRequired>>

\* setCart(next): the cart of the next render is a new array, so no addToCart
\* call that waits holds the array of the state any more
SetCart(next) ==
  /\ cart' = next
  /\ pending' = [i \in 1..Len(pending) |-> [pending[i] EXCEPT !.sameArray = FALSE]]

\* onChange of the input, which is disabled while isValidateLoading
UpdateInputValue(text) ==
  /\ ~isValidateLoading
  /\ text # inputValue
  /\ inputValue' = text
  /\ UNCHANGED <<Props, cart, isValidateLoading, pending, toast>>
  /\ UNCHANGED <<extVars, pipeVars>>

\* addToCart up to its await, called by the Enter key or the button, which
\* are disabled while isValidateLoading: the call keeps the cart of its render
\* for later
AddToCart ==
  /\ ~isValidateLoading
  /\ LET r == handleErrors(inputValue)
     IN  IF ~r.ok
         THEN /\ toast' = r.toast
              /\ UNCHANGED <<inputValue, isValidateLoading, pending>>
         ELSE /\ inputValue' = <<>>
              /\ isValidateLoading' = TRUE
              /\ pending' = Append(pending, [cart |-> cart, value |-> r.value,
                                              sameArray |-> TRUE])
              /\ UNCHANGED toast
  /\ UNCHANGED <<Props, cart>>
  /\ UNCHANGED <<extVars, pipeVars>>

\* addToCart behind its await: isDomainAvailable has resolved for call i, which
\* sets the cart to the cart it kept with the new domain behind it
AddToCartResolves(i, available) ==
  /\ i \in 1..Len(pending)
  /\ isValidateLoading' = FALSE
  /\ cart' = Append(pending[i].cart,
                    [domain |-> pending[i].value,
                     status |-> IF available THEN AVAILABLE ELSE TAKEN])
  /\ pending' = [j \in 1..Len(pending) - 1 |->
                  [pending[IF j < i THEN j ELSE j + 1] EXCEPT !.sameArray = FALSE]]
  /\ toast' = "Domain Added"
  /\ UNCHANGED <<Props, inputValue>>
  /\ UNCHANGED <<extVars, pipeVars>>

\* the confirmation popover of entry i calls removeFromCart(item.domain)
RemoveFromCart(i) ==
  /\ i \in 1..Len(cart)
  /\ SetCart(SelectSeq(cart, LAMBDA item : item.domain # cart[i].domain))
  /\ toast' = "Domain Removed"
  /\ UNCHANGED <<Props, inputValue, isValidateLoading>>
  /\ UNCHANGED <<extVars, pipeVars>>

ClearCart ==
  /\ IF Len(cart) = 0
     THEN toast' = "Empty Cart" /\ UNCHANGED <<cart, pending>>
     ELSE SetCart(<<>>) /\ toast' = "Cart Cleared"
  /\ UNCHANGED <<Props, inputValue, isValidateLoading>>
  /\ UNCHANGED <<extVars, pipeVars>>

\* a Purchase button that is never disabled
PurchaseEnabled_always == TRUE

\* isDisabled of the Purchase button, negated
PurchaseEnabled == Len(cart) = numDomainsRequired

\* a click on the Purchase button
PurchaseDomains ==
  /\ PurchaseEnabled
  /\ IF Len(cart) = 0
     THEN toast' = "Empty Cart" /\ UNCHANGED <<cart, pending>>
     ELSE IF \E i \in 1..Len(cart) : cart[i].status = TAKEN
     THEN toast' = "Unavailable Domains" /\ UNCHANGED <<cart, pending>>
     ELSE IF Len(cart) > maxDomains
     THEN toast' = "Max Domains" /\ UNCHANGED <<cart, pending>>
     ELSE SetCart(<<>>) /\ toast' = "Domains Purchased"
  /\ UNCHANGED <<Props, inputValue, isValidateLoading>>
  /\ UNCHANGED <<extVars, pipeVars>>

\* a click on Remove Unavailable Domains
RemoveUnavailableDomains ==
  /\ LET r == removeUnavailableDomains(cart)
     IN  /\ toast' = r.toast
         /\ IF r.set THEN SetCart(r.cart) ELSE UNCHANGED <<cart, pending>>
  /\ UNCHANGED <<Props, inputValue, isValidateLoading>>
  /\ UNCHANGED <<extVars, pipeVars>>

\* a click on Keep Top Domains: setCart(keepBestDomains(cart, n)).  The sort
\* inside it reorders the array of the state, which the addToCart calls that
\* wait since this render was made hold too.
KeepTopDomains ==
  /\ cart' = keepBestDomains(cart, numDomainsRequired)
  /\ pending' = [i \in 1..Len(pending) |->
                  IF pending[i].sameArray
                  THEN [pending[i] EXCEPT !.cart = SortDomains(cart), !.sameArray = FALSE]
                  ELSE pending[i]]
  /\ toast' = IF Len(cart) = 0 THEN "Empty Cart" ELSE toast
  /\ UNCHANGED <<Props, inputValue, isValidateLoading>>
  /\ UNCHANGED <<extVars, pipeVars>>

\* Confirm or Enter in the edit modal of entry i, with text in its field.  The
\* modal is given the entry itself as oldDomain, so indexOf finds it; the new
\* entry keeps the status the modal holds, that of the entry it was opened for.
HandleEdit(i, text) ==
  /\ i \in 1..Len(cart)
  /\ LET validDomain == handleErrors(text)
     IN  IF ~validDomain.ok
         THEN toast' = validDomain.toast /\ UNCHANGED <<cart, pending>>
         ELSE /\ SetCart([cart EXCEPT ![i] = [domain |-> normalizedData(text),
                                               status |-> cart[i].status]])
              /\ toast' = "Domain Edited"
  /\ UNCHANGED <<Props, inputValue, isValidateLoading>>
  /\ UNCHANGED <<extVars, pipeVars>>

CopyToClipboard ==
  /\ toast' = IF Len(cart) = 0 THEN "Empty Cart" ELSE "Copied"
  /\ UNCHANGED <<Props, cart, inputValue, isValidateLoading, pending>>
  /\ UNCHANGED <<extVars, pipeVars>>

CartNext ==
  \/ \E text \in Inputs : UpdateInputValue(text)
  \/ AddToCart
  \/ \E i \in 1..Len(pending), available \in BOOLEAN : AddToCartResolves(i, available)
  \/ \E i \in 1..Len(cart) : RemoveFromCart(i)
  \/ ClearCart
  \/ PurchaseDomains
  \/ RemoveUnavailableDomains
  \/ KeepTopDomains
  \/ \E i \in 1..Len(cart), text \in Inputs : HandleEdit(i, text)
  \/ CopyToClipboard

SpecCart == CartInit /\ [][CartNext]_vars

(***************************************************************************)
(* Claims about the field extractors, under SpecExtract.                   *)
(***************************************************************************)

\* C4: no field extractor ever fails with an exception, whatever the document;
\* in particular getNews on a date text that is no parseable date.
C4_ExtractorsNeverThrow == called => ~ret.threw

\* an item of the news list that has a title, a link and a date
CompleteNews(it) ==
  it.title # "" /\ Truthy(it.href) /\ DateOf(it.dateText) # "Invalid Date"

NewsOf(it) ==
  Obj([title |-> it.title, link |-> it.href.s, date |-> DateOf(it.dateText)])

\* C7: getNews returns exactly the news items that have a title, a link and a
\* date, in document order; an item lacking one of them is left out, with no
\* null entry in its place.
C7_NewsExactlyComplete ==
  (fn = "getNews" /\ called) =>
    /\ ~ret.threw
    /\ LET kept == SelectSeq(arg, CompleteNews)
       IN  ret.value = [i \in 1..Len(kept) |-> NewsOf(kept[i])]

\* C9: social-link extraction does not throw on a link without title and adds
\* no entry for it: every key of the result is the lower-cased first word of
\* the title of some link.
C9_SocialKeysFromTitles ==
  (fn = "getCompanySocials" /\ called) =>
    /\ ~ret.threw
    /\ \A k \in DOMAIN ret.value :
         \E i \in 1..Len(arg) :
           /\ arg[i].title # Undefined
           /\ k = ToLowerCase(FirstWord(arg[i].title.cs))

HasMalformedRow == \E i \in 1..Len(csvRows) : csvRows[i].malformed
RecordsOf(u) == {k \in 1..Len(scrapedData) : scrapedData[k].ycUrl = Txt(u)}
CrawlOver == pc \in {"writeFile", "done"}

\* C1: when the fetch of a launch sub-page fails for a company, the company's
\* record is still appended to the output collection (only that launch post is
\* left out of it).
C1_RecordSurvivesLaunchFailure ==
  CrawlOver => \A u \in Urls : req[u].launchFailed => RecordsOf(u) # {}

IsOptionalValue(x) == x.t \in {"string", "number", "null"}

\* C5: in every record of the output collection every optional field is
\* present and is a string, a number or null, never undefined and never NaN;
\* among them numJobs, a founder's imageUrl and a launch post's createdAt.
C5_OptionalFieldsExplicit ==
  \A k \in 1..Len(scrapedData) :
    LET r == scrapedData[k]
    IN  /\ \A f \in StartupScalars : IsOptionalValue(r[f])
        /\ \A i \in 1..Len(r.founders) :
             \A f \in FounderScalars : IsOptionalValue(r.founders[i][f])
        /\ \A i \in 1..Len(r.launchPosts) :
             r.launchPosts[i] # Null =>
               \A f \in LaunchScalars : IsOptionalValue(r.launchPosts[i].o[f])

\* C6: the output collection, serialized as processCompanyList does and parsed
\* again, gives back the same values: same keys, same values.
C6_JsonRoundTrip ==
  pc = "done" => JSONParse(outFile[1]) = scrapedData

\* the page a record was extracted from
PageOfRecord(k) == req[scrapedData[k].ycUrl.cs].page

\* the container has a title, a link and a description
HasAllThree(c) ==
  /\ c.title # ""
  /\ c.description # ""
  /\ c.href # Undefined
  /\ c.href.cs # <<>>

\* C8, as claimed: launchPosts holds one entry per launch container that has a
\* title, a link and a description, and no entry, null or other, for the others.
C8_NoPlaceholderInLaunchPosts ==
  \A k \in 1..Len(scrapedData) :
    LET posts == scrapedData[k].launchPosts
        complete == SelectSeq(PageOfRecord(k).launches, HasAllThree)
    IN  /\ Len(posts) = Len(complete)
        /\ \A i \in 1..Len(posts) : posts[i] # Null

\* C8, amended: launchPosts holds one entry per launch container, in document
\* order: the launch post of a container that has a title, a link and a
\* description, and null for a container that lacks one of the three.
C8_OneEntryPerContainer ==
  \A k \in 1..Len(scrapedData) :
    LET posts == scrapedData[k].launchPosts
        all == PageOfRecord(k).launches
    IN  /\ Len(posts) = Len(all)
        /\ \A i \in 1..Len(all) :
             IF HasAllThree(all[i])
             THEN /\ posts[i] # Null
                  /\ posts[i].o.title = Str(all[i].title)
                  /\ posts[i].o.description = Str(all[i].description)
                  /\ posts[i].o.link =
                       Txt(getBaseUrl(scrapedData[k].ycUrl.cs) \o all[i].href.cs)
             ELSE posts[i] = Null

\* a record has been pushed whose launchPosts holds a null and a launch post
C8_Witness ==
  \E k \in 1..Len(scrapedData) :
    LET posts == scrapedData[k].launchPosts
    IN  \E i, j \in 1..Len(posts) : posts[i] = Null /\ posts[j] # Null

(***************************************************************************)
(* C15, C16, C17: the order of the output, the one write of the file and   *)
(* the launch fetches of one record.                                       *)
(***************************************************************************)
\* the handler of u completes in this step
Completes(u) == req[u].st = "running" /\ req'[u].st = "done"

\* C15: the records are in the output array in the order in which their
\* handlers completed, under every interleaving of the handlers: a handler that
\* completes puts its own record behind the records already there, nothing else
\* changes the collection during the crawl, and the array of the written file
\* has the records in the order of the collection.
C15_OutputInCompletionOrder ==
  [][/\ \A u \in Urls :
          Completes(u) =>
            /\ Len(scrapedData') = Len(scrapedData) + 1
            /\ SubSeq(scrapedData', 1, Len(scrapedData)) = scrapedData
            /\ scrapedData'[Len(scrapedData')].ycUrl = Txt(u)
     /\ scrapedData' # scrapedData => \E u \in Urls : Completes(u)
     /\ outFile' # outFile =>
          /\ Len(outFile'[1]) = Len(scrapedData)
          /\ \A k \in 1..Len(scrapedData) :
               JSONParse(outFile'[1])[k].ycUrl = scrapedData[k].ycUrl]_vars

\* the file has been written with the records of two rows in the order
\* opposite to that of the rows
C15_Witness ==
  /\ pc = "done"
  /\ Len(companies) = 2 /\ Len(scrapedData) = 2
  /\ scrapedData[1].ycUrl = Txt(companies[2].ycUrl)
  /\ scrapedData[2].ycUrl = Txt(companies[1].ycUrl)
  /\ companies[1].ycUrl # companies[2].ycUrl

\* no request of the crawl is queued or running
AllRequestsSettled ==
  \A i \in 1..Len(companies) : req[companies[i].ycUrl].st \in {"done", "failed"}

\* C16: a run writes the output file at most once, and only after the input
\* has been parsed to its end, the output directory created and the crawl over
\* with every request settled; what it writes is the whole collection.  A run
\* that a failing step has ended has written no file.
C16_SingleWriteAtEnd ==
  /\ [](pc = "aborted" => outFile = <<>>)
  /\ [][outFile' # outFile =>
          /\ outFile = <<>>
          /\ pc = "writeFile" /\ pc' = "done"
          /\ rowIdx = Len(csvRows) /\ Len(companies) = Len(csvRows)
          /\ outDir
          /\ AllRequestsSettled
          /\ outFile' = <<JSONStringify(scrapedData)>>]_vars
  /\ [][pc = "done" => outFile' = outFile]_vars

\* the file has been written at the end of a run that scraped two rows
C16_Witness ==
  /\ pc = "done"
  /\ Len(outFile) = 1
  /\ Len(outFile[1]) = 2

\* the containers of u's page that getAllLaunchPosts fetches a launch page for
QualifyingOf(u, page) ==
  {i \in 1..Len(page.launches) : Qualifies(page.launches[i], getBaseUrl(u))}

\* the launch fetches of u that are under way
PendingOf(u) == {i \in 1..Len(req[u].launch) : req[u].launch[i].st = "pending"}

\* C17: when the handler of a record calls getAllLaunchPosts, the fetches of
\* all its qualifying launch posts are started together, one each, none waiting
\* for another; and the record is appended only when every one of them has
\* completed.
C17_FetchesTogetherPushAfterAll ==
  [][\A u \in Urls :
       /\ (req[u].st = "queued" /\ req'[u].st = "running") =>
            PendingOf(u)' = QualifyingOf(u, req'[u].page)
       /\ Cardinality(RecordsOf(u)') > Cardinality(RecordsOf(u)) =>
            /\ req[u].st = "running"
            /\ PendingOf(u) = {}
            /\ Len(req[u].launch) = Len(req[u].page.launches)]_vars

\* two launch fetches of one record were under way, both have completed and
\* the record is in the collection
C17_Witness ==
  \E u \in Urls :
    /\ req[u].st = "done"
    /\ Cardinality(QualifyingOf(u, req[u].page)) = 2
    /\ RecordsOf(u) # {}

(***************************************************************************)
(* C11: the post and the sources of a launch page.                         *)
(***************************************************************************)
\* the src the claim takes for a child without text: that of its first image,
\* else that of its first iframe, else none
MediaSrcOf(child) ==
  IF child.imgSrc.t = "string" /\ child.imgSrc.cs # <<>> THEN child.imgSrc.cs
  ELSE IF child.iframeSrc.t = "string" /\ child.iframeSrc.cs # <<>> THEN child.iframeSrc.cs
  ELSE <<>>

\* a reference made absolute against the origin of the page's URL
AbsoluteOf(ref, url) == IF Head(ref) \in Origins THEN ref ELSE <<url[1]>> \o ref

\* the children the post takes a media URL from, in order
MediaChildren(kids) ==
  SelectSeq(kids, LAMBDA c : Trim(c.text) = <<>> /\ MediaSrcOf(c) # <<>>)

TldRank(entry) ==
  LET tld == entry.domain[Len(entry.domain)]
  IN  IF tld = "com" THEN 0 ELSE IF tld = "app" THEN 1 ELSE 2

\* entry a comes strictly before entry b in the claim's order
Before(a, b) ==
  \/ TldRank(a) < TldRank(b)
  \/ TldRank(a) = TldRank(b) /\ StringLength(a.domain) < StringLength(b.domain)

\* how often entry e occurs in the list xs
Occurrences(xs, e) == Cardinality({i \in 1..Len(xs) : xs[i] = e})

\* C14: for a cart that is not empty keepBestDomains(cart, n) returns
\* min(n, |cart|) entries of the cart, ordered by TLD priority (com, app, xyz)
\* and within one TLD by ascending length of the domain, and they are the first
\* of the cart in that order: no entry left out comes before one returned.  For
\* the empty cart it returns the empty list.
C14_KeepBestIsSortedPrefix ==
  (fn = "keepBestDomains" /\ called) =>
    LET c == arg.cart
        r == ret.value
    IN  /\ ~ret.threw
        /\ Len(r) = IF arg.n < Len(c) THEN arg.n ELSE Len(c)
        /\ \A i, j \in 1..Len(r) : i < j => ~Before(r[j], r[i])
        /\ \A e \in CartEntries :
             /\ Occurrences(r, e) <= Occurrences(c, e)
             /\ Occurrences(r, e) < Occurrences(c, e) =>
                  \A i \in 1..Len(r) : ~Before(e, r[i])

\* keepBestDomains has returned two of three entries: the longer .com domain
\* that was last in the cart, then the .app domain, and not the .xyz domain
\* that was first
C14_Witness ==
  /\ fn = "keepBestDomains" /\ called
  /\ Len(arg.cart) = 3 /\ arg.n = 2
  /\ arg.cart[1].domain = <<"a", ".", "xyz">>
  /\ arg.cart[3].domain = <<"b4", ".", "com">>
  /\ ret.value[1].domain = <<"b4", ".", "com">>
  /\ ret.value[2].domain = <<"a", "-", "a", ".", "app">>

(***************************************************************************)
(* C12, C13, C18, C19, C20: the cart of the widget.                        *)
(***************************************************************************)
\* C12: whatever is added, edited, removed, cleared, kept, purchased, also
\* while an addToCart call waits for its availability check, the cart never
\* holds more than maxDomains domains, the Taken ones counted.
C12_CartWithinMaxDomains == Len(cart) <= maxDomains

\* an addToCart call has resumed and filled the cart to the limit, with a
\* Taken domain in it
C12_Witness ==
  /\ toast = "Domain Added"
  /\ maxDomains > 1
  /\ Len(cart) = maxDomains
  /\ \E i \in 1..Len(cart) : cart[i].status = TAKEN
  /\ cart[1].domain = <<"b4", ".", "com">>
  /\ cart[Len(cart)].domain = <<"a", ".", "com">>

\* the states a purchase can succeed from
Purchasable ==
  /\ Len(cart) = numDomainsRequired
  /\ Len(cart) >= 1
  /\ \A i \in 1..Len(cart) : cart[i].status # TAKEN

\* C13: a purchase succeeds (the "Domains Purchased" notification is shown and
\* the cart emptied) only from a state whose cart holds exactly
\* numDomainsRequired domains, at least one, none of them Taken; a click on
\* Purchase in any other state leaves the cart as it is.
C13_PurchaseOnlyWhenRequiredAndAvailable ==
  [][/\ (toast' = "Domains Purchased" /\ toast' # toast) =>
          Purchasable /\ cart' = <<>>
     /\ (PurchaseDomains /\ ~Purchasable) =>
          cart' = cart /\ toast' # "Domains Purchased"]_vars

\* two domains were required, and a cart of two Available domains has been
\* purchased
C13_Witness ==
  /\ toast = "Domains Purchased"
  /\ cart = <<>>
  /\ numDomainsRequired = 2

\* an addToCart call resumes in this step
AddResumes == Len(pending') < Len(pending)

\* C18, as claimed: when the availability check of an addToCart call
\* completes, the cart becomes the cart as it is then, as the operations made
\* in the meantime left it, with the new domain behind it.
C18_ResumedAddKeepsInterveningChange ==
  [][AddResumes =>
       /\ Len(cart') = Len(cart) + 1
       /\ SubSeq(cart', 1, Len(cart)) = cart
       /\ cart'[Len(cart')].domain = pending[1].value]_vars

C20_EntriesNormalizedAndValid ==
  \A i \in 1..Len(cart) :
    LET d == cart[i].domain
        dots == {k \in 1..Len(d) : d[k] = "."}
    IN  /\ d # <<>>
        /\ d[1] # " " /\ d[Len(d)] # " "
        /\ \A k \in 1..Len(d) : d[k] \notin {"A", "COM", "T"}
        /\ \A k \in 1..Len(d) : d[k] \notin {"http://", "https://"}
        /\ \A k \in 1..Len(d) :
             k \notin dots => d[k] \in {"a", "b4", "-", "com", "app", "xyz", "org"}
        /\ Cardinality(dots) <= 1
        /\ \A k \in dots : k > 1 /\ k < Len(d)
        /\ Len(d) >= 2
        /\ d[Len(d) - 1] = "." /\ d[Len(d)] \in {"com", "xyz", "app"}
        /\ TLD_PRIORITY(LastPart(d)) # Undefined

\* an edit has put into the cart a domain that was typed with a blank before
\* it and its TLD in capitals
C20_Witness ==
  /\ toast = "Domain Edited"
  /\ Len(cart) = 1
  /\ cart[1].domain = <<"b4", ".", "com">>

(***************************************************************************)
(* C21: removeUnavailableDomains.                                          *)
(***************************************************************************)
\* the places of the cart c whose entry is Available
AvailablePlaces(c) == {i \in 1..Len(c) : c[i].status = "Available"}

\* C21: removeUnavailableDomains removes exactly the entries whose status is
\* not Available: the cart it leaves holds the Available entries of the cart
\* it found, each once per place and in their original order, and no other;
\* a cart that is empty or all Available is left as it is, with no setCart.
C21_RemovesExactlyNotAvailable ==
  (fn = "removeUnavailableDomains" /\ called) =>
    LET c == arg
        r == ret.value
        kept == AvailablePlaces(c)
    IN  /\ ~ret.threw
        /\ Len(r.cart) = Cardinality(kept)
        /\ \A i \in kept :
             r.cart[Cardinality({j \in kept : j <= i})] = c[i]
        /\ (c = <<>> \/ kept = 1..Len(c)) => ~r.set /\ r.cart = c
        /\ r.set => kept # 1..Len(c)

\* of a cart of three entries the Taken one in the middle has been removed and
\* the two Available ones, of different domains, are left in their order
C21_Witness ==
  /\ fn = "removeUnavailableDomains" /\ called
  /\ Len(arg) = 3
  /\ AvailablePlaces(arg) = {1, 3}
  /\ arg[1].domain # arg[3].domain
  /\ ret.value.set
  /\ ret.value.cart = <<arg[1], arg[3]>>

====
